---- MODULE Spec2Model ----
(***************************************************************************)
(* A model of two instrumentation adapters:                                *)
(*                                                                         *)
(*   instrumentation/net/http/otelhttp/metrics.go                          *)
(*       instrumentedTransport.RoundTrip, wrappedBodyIO, tracker.end,      *)
(*       tracker.Read, tracker.Close                                       *)
(*   instrumentation/github.com/emicklei/go-restful/restful.go             *)
(*       OTelFilter and the filter function it returns                     *)
(*                                                                         *)
(* Each call of RoundTrip is a thread "rt"; the goroutines that use the    *)
(* returned response body are the threads of Goroutines.  A step of the    *)
(* model is one statement of the source; sync.Once.Do is modelled by its   *)
(* atomic load of done, its mutex and its store of done.                   *)
(***************************************************************************)
EXTENDS Integers, Sequences, FiniteSets, TLC

\* ------------------------------------------------------------------ bounds
MaxOps == 4        \* Read and Close calls made on one wrapped body
MaxClock == 1      \* ticks of the wall clock
MaxWrites == 2     \* status codes the downstream chain writes per request
MaxGlobalSets == 1 \* changes of the global trace provider or propagators
MaxCallOps == 2    \* Read, Close and Write calls made on the bodies of two concurrent calls

\* --------------------------------------------------------- program constants
StatusInternalServerError == 500

Calls == {"c1"}
\* The calls of the specification of concurrent calls, SpecCalls.
AllCalls == {"c1", "c2"}
Goroutines == {"g1", "g2"}
Threads == {"rt"} \cup Goroutines
Requests == {"r1", "r2"}

\* Status codes a server answers with, and the ones the chain may write.
StatusCodes == {200, 404}
ChainCodes == {200, 404, 500}

\* Results of trans.base.RoundTrip: the response pointer and the error, with the
\* StatusCode and Body of the response as the wrapped transport returned it.
BaseResults ==
    { [resp |-> "nil", err |-> "ErrNet", StatusCode |-> 0, Body |-> "nil"] }
    \cup { [resp |-> "resp", err |-> "ErrNet", StatusCode |-> 404, Body |-> b] :
             b \in {"nil", "body"} }
    \cup { [resp |-> "resp", err |-> "nil", StatusCode |-> code, Body |-> b] :
             code \in StatusCodes, b \in {"nil", "body", "bodyW"} }

\* Results of the original body's Read: (n, err).
ReadResults ==
    { [n |-> 1, err |-> "nil"], [n |-> 1, err |-> "EOF"],
      [n |-> 0, err |-> "EOF"], [n |-> 0, err |-> "ErrUnexpectedEOF"] }
\* Results of the original body's Close.
CloseResults == {"nil", "ErrClosed"}

VARIABLES
    clock,      \* time.Now()
    thr,        \* thr[c][t]: the frame of thread t of call c: op, pc, n, err
    baseRet,    \* baseRet[c]: what trans.base.RoundTrip returned: resp, err
    resp,       \* resp[c]: the http.Response object: StatusCode, Body
    rtRet,      \* rtRet[c]: what the instrumented RoundTrip returned
    tracker,    \* tracker[c]: start, labels, body, and endOnce (done, m)
    samples,    \* the calls clientDurationRecorder.Record received, in order
    body,       \* body[c]: the calls the original body received: reads, eofs, closes, writes
    wrap,       \* wrap[c]: the wrapper's Read calls returned, those that returned io.EOF, its Close calls made
    ret,        \* ret[c][g]: what g's Read or Close on the wrapper returned (unset during a call)
    fpc,        \* fpc[r]: where the filter function is for request r
    span,       \* span[r]: the calls the span of request r received, in order
    statusCode, \* statusCode[r]: the statusCode field of the restful.Response
    reqCtx,     \* reqCtx[r]: the context of req.Request
    chain,      \* chain[r]: calls of chain.ProcessFilter, writes it made, panicked
    floc,       \* floc[r]: the locals attrs, spanStatus of the filter function
    fout,       \* fout[r]: how the filter function was left: returned or panicked
    globals,    \* otelglobal: the trace provider, the propagators, the times they were set
    cfg,        \* the Config the filter function closes over (unset before OTelFilter)
    used        \* used[r]: the propagators and the tracer the filter function used for r

transportVars == <<clock, thr, baseRet, resp, rtRet, tracker, samples, body, wrap, ret>>
filterVars == <<fpc, span, statusCode, reqCtx, chain, floc, fout, globals, cfg, used>>
vars == <<clock, thr, baseRet, resp, rtRet, tracker, samples, body, wrap, ret,
          fpc, span, statusCode, reqCtx, chain, floc, fout, globals, cfg, used>>

NoRet == [resp |-> "unset", err |-> "unset"]
NoCfg == [Tracer |-> "nil", Propagators |-> "nil"]
NoBaseRet == [resp |-> "unset", err |-> "unset", StatusCode |-> 0, Body |-> "nil"]
NoOpRet == [op |-> "none", n |-> 0, err |-> "nil"]
IdleFrame == [op |-> "none", pc |-> "idle", n |-> 0, err |-> "nil"]

\* semconv.HTTPClientAttributesFromHTTPRequest(req)
HTTPClientAttributesFromHTTPRequest(c) ==
    << [key |-> "http.request", req |-> c] >>

\* semconv.HTTPAttributesFromHTTPStatusCode(code)
HTTPAttributesFromHTTPStatusCode(code) ==
    << [key |-> "http.status_code", code |-> code] >>

\* The dynamic type of a body value implements io.Writer.
IsWriter(b) == b \in {"bodyW", "trackerW"}

\* Mutation: the wrapper is returned as it is, whatever the original body implements
wrappedBodyIO_Plain(wrapper, b) == wrapper

\* wrappedBodyIO(wrapper, body): the struct{io.ReadCloser; io.Writer} when the
\* original body is an io.Writer, the wrapper itself otherwise.
wrappedBodyIO(wrapper, b) ==
    IF IsWriter(b) THEN "trackerW" ELSE wrapper

SamplesOf(c) == SelectSeq(samples, LAMBDA s : s.ctx = c)

InitTransport ==
    /\ clock = 0
    /\ thr = [c \in AllCalls |-> [t \in Threads |-> IdleFrame]]
    /\ baseRet = [c \in AllCalls |-> NoBaseRet]
    /\ resp = [c \in AllCalls |-> [StatusCode |-> 0, Body |-> "nil"]]
    /\ rtRet = [c \in AllCalls |-> NoRet]
    /\ tracker = [c \in AllCalls |->
                    [start |-> 0, labels |-> <<>>, body |-> "nil",
                     done |-> 0, m |-> "free"]]
    /\ samples = <<>>
    /\ body = [c \in AllCalls |-> [reads |-> 0, eofs |-> 0, closes |-> 0, writes |-> 0]]
    /\ wrap = [c \in AllCalls |-> [reads |-> 0, eofs |-> 0, closes |-> 0]]
    /\ ret = [c \in AllCalls |-> [g \in Goroutines |-> NoOpRet]]

\* time passes
Tick ==
    /\ clock < MaxClock
    /\ clock' = clock + 1
    /\ UNCHANGED <<thr, baseRet, resp, rtRet, tracker, samples, body, wrap, ret>>
    /\ UNCHANGED filterVars

Goto(c, t, l) == [thr EXCEPT ![c][t].pc = l]

\* ------------------------------------------------ instrumentedTransport.RoundTrip
\* lines 57-64: labels from the request, the tracker with start = time.Now()
RoundTrip_Begin(c) ==
    /\ thr[c]["rt"].pc = "idle"
    /\ thr' = [thr EXCEPT ![c]["rt"] = [op |-> "RoundTrip", pc |-> "L66", n |-> 0, err |-> "nil"]]
    /\ tracker' = [tracker EXCEPT ![c].start = clock]
    /\ UNCHANGED <<clock, baseRet, resp, rtRet, samples, body, wrap, ret>>
    /\ UNCHANGED filterVars

\* Mutation: the start time is taken when the wrapped transport has returned
RoundTrip_Base_Restart(c) ==
    /\ thr[c]["rt"].pc = "L66"
    /\ \E r \in BaseResults :
          /\ baseRet' = [baseRet EXCEPT ![c] = r]
          /\ resp' = [resp EXCEPT ![c] = [StatusCode |-> r.StatusCode, Body |-> r.Body]]
    /\ tracker' = [tracker EXCEPT ![c].start = clock]
    /\ thr' = Goto(c, "rt", "L67")
    /\ UNCHANGED <<clock, rtRet, samples, body, wrap, ret>>
    /\ UNCHANGED filterVars

\* line 66: resp, err := trans.base.RoundTrip(req).  The wrapped transport fails
\* (with no response, or with one), or answers with a status code and a body
\* that is nil, a ReadCloser, or a ReadCloser that is also a Writer.
RoundTrip_Base(c) ==
    /\ thr[c]["rt"].pc = "L66"
    /\ \E r \in BaseResults :
          /\ baseRet' = [baseRet EXCEPT ![c] = r]
          /\ resp' = [resp EXCEPT ![c] = [StatusCode |-> r.StatusCode, Body |-> r.Body]]
    /\ thr' = Goto(c, "rt", "L67")
    /\ UNCHANGED <<clock, rtRet, tracker, samples, body, wrap, ret>>
    /\ UNCHANGED filterVars

\* Mutation: the error path takes the status code of the response
RoundTrip_ErrLabels_RespCode(c) ==
    /\ thr[c]["rt"].pc = "L67"
    /\ baseRet[c].err # "nil"
    /\ tracker' = [tracker EXCEPT ![c].labels =
                     HTTPClientAttributesFromHTTPRequest(c)
                       \o HTTPAttributesFromHTTPStatusCode(resp[c].StatusCode)]
    /\ thr' = Goto(c, "rt", "L69")
    /\ UNCHANGED <<clock, baseRet, resp, rtRet, samples, body, wrap, ret>>
    /\ UNCHANGED filterVars

\* lines 67-68: err != nil: the labels of the request and of status 500
RoundTrip_ErrLabels(c) ==
    /\ thr[c]["rt"].pc = "L67"
    /\ baseRet[c].err # "nil"
    /\ tracker' = [tracker EXCEPT ![c].labels =
                     HTTPClientAttributesFromHTTPRequest(c)
                       \o HTTPAttributesFromHTTPStatusCode(StatusInternalServerError)]
    /\ thr' = Goto(c, "rt", "L69")
    /\ UNCHANGED <<clock, baseRet, resp, rtRet, samples, body, wrap, ret>>
    /\ UNCHANGED filterVars

\* Mutation: the success path takes status 500, like the error path
RoundTrip_OkLabels_500(c) ==
    /\ thr[c]["rt"].pc = "L67"
    /\ baseRet[c].err = "nil"
    /\ tracker' = [tracker EXCEPT ![c].labels =
                     HTTPClientAttributesFromHTTPRequest(c)
                       \o HTTPAttributesFromHTTPStatusCode(StatusInternalServerError)]
    /\ thr' = Goto(c, "rt", "L72")
    /\ UNCHANGED <<clock, baseRet, resp, rtRet, samples, body, wrap, ret>>
    /\ UNCHANGED filterVars

\* lines 67, 70-71: err == nil: the labels of the request and of resp.StatusCode
RoundTrip_OkLabels(c) ==
    /\ thr[c]["rt"].pc = "L67"
    /\ baseRet[c].err = "nil"
    /\ tracker' = [tracker EXCEPT ![c].labels =
                     HTTPClientAttributesFromHTTPRequest(c)
                       \o HTTPAttributesFromHTTPStatusCode(resp[c].StatusCode)]
    /\ thr' = Goto(c, "rt", "L72")
    /\ UNCHANGED <<clock, baseRet, resp, rtRet, samples, body, wrap, ret>>
    /\ UNCHANGED filterVars

\* Mutation: a nil body is not finalized: only the error path calls end()
RoundTrip_End_OnlyErr(c) ==
    /\ \/ thr[c]["rt"].pc = "L69"
       \/ thr[c]["rt"].pc = "L72" /\ resp[c].Body = "nil"
    /\ thr' = Goto(c, "rt", IF thr[c]["rt"].pc = "L69" THEN "once_load" ELSE "L79")
    /\ UNCHANGED <<clock, baseRet, resp, rtRet, tracker, samples, body, wrap, ret>>
    /\ UNCHANGED filterVars

\* lines 69 and 72-73: tracker.end() on the error path and on the nil-body path
RoundTrip_End(c) ==
    /\ \/ thr[c]["rt"].pc = "L69"
       \/ thr[c]["rt"].pc = "L72" /\ resp[c].Body = "nil"
    /\ thr' = Goto(c, "rt", "once_load")
    /\ UNCHANGED <<clock, baseRet, resp, rtRet, tracker, samples, body, wrap, ret>>
    /\ UNCHANGED filterVars

\* Mutation: the body is wrapped and the measurement finalized at once
RoundTrip_Wrap_Eager(c) ==
    /\ thr[c]["rt"].pc = "L72"
    /\ resp[c].Body # "nil"
    /\ tracker' = [tracker EXCEPT ![c].body = resp[c].Body]
    /\ resp' = [resp EXCEPT ![c].Body = wrappedBodyIO("tracker", resp[c].Body)]
    /\ thr' = Goto(c, "rt", "once_load")
    /\ UNCHANGED <<clock, baseRet, rtRet, samples, body, wrap, ret>>
    /\ UNCHANGED filterVars

\* lines 72, 74-76: tracker.body = resp.Body; resp.Body = wrappedBodyIO(tracker, resp.Body)
RoundTrip_Wrap(c) ==
    /\ thr[c]["rt"].pc = "L72"
    /\ resp[c].Body # "nil"
    /\ tracker' = [tracker EXCEPT ![c].body = resp[c].Body]
    /\ resp' = [resp EXCEPT ![c].Body = wrappedBodyIO("tracker", resp[c].Body)]
    /\ thr' = Goto(c, "rt", "L79")
    /\ UNCHANGED <<clock, baseRet, rtRet, samples, body, wrap, ret>>
    /\ UNCHANGED filterVars

\* line 79: return resp, err
RoundTrip_Return(c) ==
    /\ thr[c]["rt"].pc = "L79"
    /\ rtRet' = [rtRet EXCEPT ![c] = [resp |-> baseRet[c].resp, err |-> baseRet[c].err]]
    /\ thr' = [thr EXCEPT ![c]["rt"] = [@ EXCEPT !.op = "none", !.pc = "done"]]
    /\ UNCHANGED <<clock, baseRet, resp, tracker, samples, body, wrap, ret>>
    /\ UNCHANGED filterVars

\* ------------------------------------------------------------------ tracker.end
\* Where a thread continues when tracker.end() returns.
AfterEnd(c, t) ==
    CASE thr[c][t].op = "RoundTrip" -> "L79"
      [] thr[c][t].op = "Read" -> "L122"
      [] thr[c][t].op = "Close" -> "L127"
      [] OTHER -> "idle"

\* Mutation: one guard for all trackers: done of any call ends every call's end()
end_Load_Shared(c, t) ==
    /\ thr[c][t].pc = "once_load"
    /\ thr' = Goto(c, t, IF \E d \in AllCalls : tracker[d].done = 1
                         THEN AfterEnd(c, t) ELSE "once_lock")
    /\ UNCHANGED <<clock, baseRet, resp, rtRet, tracker, samples, body, wrap, ret>>
    /\ UNCHANGED filterVars

\* line 108, endOnce.Do: the atomic load of done; done set: Do returns at once
end_Load(c, t) ==
    /\ thr[c][t].pc = "once_load"
    /\ thr' = Goto(c, t, IF tracker[c].done = 1 THEN AfterEnd(c, t) ELSE "once_lock")
    /\ UNCHANGED <<clock, baseRet, resp, rtRet, tracker, samples, body, wrap, ret>>
    /\ UNCHANGED filterVars

\* Mutation: a thread that finds the mutex taken does not wait for it
end_Lock_NoWait(c, t) ==
    /\ thr[c][t].pc = "once_lock"
    /\ IF tracker[c].m = "free"
       THEN /\ tracker' = [tracker EXCEPT ![c].m = t]
            /\ thr' = Goto(c, t, IF tracker[c].done = 0 THEN "once_f" ELSE "once_unlock")
       ELSE /\ tracker' = tracker
            /\ thr' = Goto(c, t, AfterEnd(c, t))
    /\ UNCHANGED <<clock, baseRet, resp, rtRet, samples, body, wrap, ret>>
    /\ UNCHANGED filterVars

\* Mutation: done is not looked at again under the mutex (check-then-act)
end_Lock_NoRecheck(c, t) ==
    /\ thr[c][t].pc = "once_lock"
    /\ tracker[c].m = "free"
    /\ tracker' = [tracker EXCEPT ![c].m = t]
    /\ thr' = Goto(c, t, "once_f")
    /\ UNCHANGED <<clock, baseRet, resp, rtRet, samples, body, wrap, ret>>
    /\ UNCHANGED filterVars

\* line 108, endOnce.Do: lock the mutex, and look at done again under it
end_Lock(c, t) ==
    /\ thr[c][t].pc = "once_lock"
    /\ tracker[c].m = "free"
    /\ tracker' = [tracker EXCEPT ![c].m = t]
    /\ thr' = Goto(c, t, IF tracker[c].done = 0 THEN "once_f" ELSE "once_unlock")
    /\ UNCHANGED <<clock, baseRet, resp, rtRet, samples, body, wrap, ret>>
    /\ UNCHANGED filterVars

\* lines 109-110: latencyMs := time.Since(start); Record(ctx, latencyMs, labels...)
end_Record(c, t) ==
    /\ thr[c][t].pc = "once_f"
    /\ samples' = Append(samples, [ctx |-> c,
                                   value |-> clock - tracker[c].start,
                                   labels |-> tracker[c].labels])
    /\ thr' = Goto(c, t, "once_store")
    /\ UNCHANGED <<clock, baseRet, resp, rtRet, tracker, body, wrap, ret>>
    /\ UNCHANGED filterVars

\* Mutation: the function has run but done is never stored
end_Store_NoDone(c, t) ==
    /\ thr[c][t].pc = "once_store"
    /\ thr' = Goto(c, t, "once_unlock")
    /\ UNCHANGED <<clock, baseRet, resp, rtRet, tracker, samples, body, wrap, ret>>
    /\ UNCHANGED filterVars

\* line 111, endOnce.Do: the function has returned: store done
end_Store(c, t) ==
    /\ thr[c][t].pc = "once_store"
    /\ tracker' = [tracker EXCEPT ![c].done = 1]
    /\ thr' = Goto(c, t, "once_unlock")
    /\ UNCHANGED <<clock, baseRet, resp, rtRet, samples, body, wrap, ret>>
    /\ UNCHANGED filterVars

\* line 111, endOnce.Do: unlock the mutex; end() returns
end_Unlock(c, t) ==
    /\ thr[c][t].pc = "once_unlock"
    /\ tracker[c].m = t
    /\ tracker' = [tracker EXCEPT ![c].m = "free"]
    /\ thr' = Goto(c, t, AfterEnd(c, t))
    /\ UNCHANGED <<clock, baseRet, resp, rtRet, samples, body, wrap, ret>>
    /\ UNCHANGED filterVars

\* ------------------------------------------------------- the wrapped body's users
\* The caller holds the wrapper: RoundTrip returned without error a response
\* whose Body is the tracker (or the struct that embeds it).
Published(c) ==
    /\ rtRet[c].resp = "resp"
    /\ rtRet[c].err = "nil"
    /\ resp[c].Body \in {"tracker", "trackerW"}

OpsMade(c) == body[c].reads + wrap[c].closes

\* line 115: n, err := tracker.body.Read(b)
Read_Delegate(c, g) ==
    /\ Published(c)
    /\ thr[c][g].pc = "idle"
    /\ OpsMade(c) < MaxOps
    /\ \E r \in ReadResults :
          /\ thr' = [thr EXCEPT ![c][g] =
                       [op |-> "Read", pc |-> "L116", n |-> r.n, err |-> r.err]]
          /\ body' = [body EXCEPT ![c].reads = @ + 1,
                                  ![c].eofs = @ + (IF r.err = "EOF" THEN 1 ELSE 0)]
    /\ ret' = [ret EXCEPT ![c][g] = NoOpRet]
    /\ UNCHANGED <<clock, baseRet, resp, rtRet, tracker, samples, wrap>>
    /\ UNCHANGED filterVars

\* Mutation: io.EOF does not finalize: only Close does
Read_Switch_NoEOF(c, g) ==
    /\ thr[c][g].pc = "L116"
    /\ IF thr[c][g].err = "nil"
       THEN /\ ret' = [ret EXCEPT ![c][g] = [op |-> "Read", n |-> thr[c][g].n, err |-> "nil"]]
            /\ wrap' = [wrap EXCEPT ![c].reads = @ + 1]
            /\ thr' = Goto(c, g, "idle")
       ELSE /\ thr' = Goto(c, g, "L122")
            /\ UNCHANGED <<ret, wrap>>
    /\ UNCHANGED <<clock, baseRet, resp, rtRet, tracker, samples, body>>
    /\ UNCHANGED filterVars

\* Mutation: every error of Read finalizes, not io.EOF alone
Read_Switch_AnyErr(c, g) ==
    /\ thr[c][g].pc = "L116"
    /\ IF thr[c][g].err = "nil"
       THEN /\ ret' = [ret EXCEPT ![c][g] = [op |-> "Read", n |-> thr[c][g].n, err |-> "nil"]]
            /\ wrap' = [wrap EXCEPT ![c].reads = @ + 1]
            /\ thr' = Goto(c, g, "idle")
       ELSE /\ thr' = Goto(c, g, "once_load")
            /\ UNCHANGED <<ret, wrap>>
    /\ UNCHANGED <<clock, baseRet, resp, rtRet, tracker, samples, body>>
    /\ UNCHANGED filterVars

\* lines 116-121: switch err: nil returns n, nil; io.EOF calls tracker.end()
Read_Switch(c, g) ==
    /\ thr[c][g].pc = "L116"
    /\ IF thr[c][g].err = "nil"
       THEN /\ ret' = [ret EXCEPT ![c][g] = [op |-> "Read", n |-> thr[c][g].n, err |-> "nil"]]
            /\ wrap' = [wrap EXCEPT ![c].reads = @ + 1]
            /\ thr' = Goto(c, g, "idle")
       ELSE /\ thr' = Goto(c, g, IF thr[c][g].err = "EOF" THEN "once_load" ELSE "L122")
            /\ UNCHANGED <<ret, wrap>>
    /\ UNCHANGED <<clock, baseRet, resp, rtRet, tracker, samples, body>>
    /\ UNCHANGED filterVars

\* Mutation: the byte count is dropped when err is not nil
Read_Return_NoCount(c, g) ==
    /\ thr[c][g].pc = "L122"
    /\ ret' = [ret EXCEPT ![c][g] = [op |-> "Read", n |-> 0, err |-> thr[c][g].err]]
    /\ wrap' = [wrap EXCEPT ![c].reads = @ + 1,
                            ![c].eofs = @ + (IF thr[c][g].err = "EOF" THEN 1 ELSE 0)]
    /\ thr' = Goto(c, g, "idle")
    /\ UNCHANGED <<clock, baseRet, resp, rtRet, tracker, samples, body>>
    /\ UNCHANGED filterVars

\* line 122: return n, err
Read_Return(c, g) ==
    /\ thr[c][g].pc = "L122"
    /\ ret' = [ret EXCEPT ![c][g] = [op |-> "Read", n |-> thr[c][g].n, err |-> thr[c][g].err]]
    /\ wrap' = [wrap EXCEPT ![c].reads = @ + 1,
                            ![c].eofs = @ + (IF thr[c][g].err = "EOF" THEN 1 ELSE 0)]
    /\ thr' = Goto(c, g, "idle")
    /\ UNCHANGED <<clock, baseRet, resp, rtRet, tracker, samples, body>>
    /\ UNCHANGED filterVars

\* Mutation: Close delegates without finalizing
Close_End_NoEnd(c, g) ==
    /\ Published(c)
    /\ thr[c][g].pc = "idle"
    /\ OpsMade(c) < MaxOps
    /\ thr' = [thr EXCEPT ![c][g] = [op |-> "Close", pc |-> "L127", n |-> 0, err |-> "nil"]]
    /\ wrap' = [wrap EXCEPT ![c].closes = @ + 1]
    /\ ret' = [ret EXCEPT ![c][g] = NoOpRet]
    /\ UNCHANGED <<clock, baseRet, resp, rtRet, tracker, samples, body>>
    /\ UNCHANGED filterVars

\* line 126: tracker.end()
Close_End(c, g) ==
    /\ Published(c)
    /\ thr[c][g].pc = "idle"
    /\ OpsMade(c) < MaxOps
    /\ thr' = [thr EXCEPT ![c][g] = [op |-> "Close", pc |-> "once_load", n |-> 0, err |-> "nil"]]
    /\ wrap' = [wrap EXCEPT ![c].closes = @ + 1]
    /\ ret' = [ret EXCEPT ![c][g] = NoOpRet]
    /\ UNCHANGED <<clock, baseRet, resp, rtRet, tracker, samples, body>>
    /\ UNCHANGED filterVars

\* line 127: return tracker.body.Close()
Close_Delegate(c, g) ==
    /\ thr[c][g].pc = "L127"
    /\ \E e \in CloseResults :
          /\ ret' = [ret EXCEPT ![c][g] = [op |-> "Close", n |-> 0, err |-> e]]
          /\ thr' = [thr EXCEPT ![c][g] = [@ EXCEPT !.pc = "idle", !.err = e]]
    /\ body' = [body EXCEPT ![c].closes = @ + 1]
    /\ UNCHANGED <<clock, baseRet, resp, rtRet, tracker, samples, wrap>>
    /\ UNCHANGED filterVars

\* lines 86-90: Write on the struct{io.ReadCloser; io.Writer} is the original
\* body's Write, promoted from the embedded io.Writer; the plain wrapper has none
Write(c, g) ==
    /\ Published(c)
    /\ IsWriter(resp[c].Body)
    /\ thr[c][g].pc = "idle"
    /\ body' = [body EXCEPT ![c].writes = @ + 1]
    /\ ret' = [ret EXCEPT ![c][g] = [op |-> "Write", n |-> 1, err |-> "nil"]]
    /\ UNCHANGED <<clock, thr, baseRet, resp, rtRet, tracker, samples, wrap>>
    /\ UNCHANGED filterVars

InitFilter ==
    /\ fpc = [r \in Requests |-> "idle"]
    /\ span = [r \in Requests |-> <<>>]
    /\ statusCode = [r \in Requests |-> 0]
    /\ reqCtx = [r \in Requests |-> "incoming"]
    /\ chain = [r \in Requests |-> [calls |-> 0, writes |-> 0, panicked |-> FALSE]]
    /\ floc = [r \in Requests |-> [attrs |-> <<>>, spanStatus |-> "unset"]]
    /\ fout = [r \in Requests |-> "none"]
    /\ globals = [TraceProvider |-> "tp0", Propagators |-> "p0", sets |-> 0]
    /\ cfg = NoCfg
    /\ used = [r \in Requests |-> NoCfg]

\* ---------------------------------------------------------------- OTelFilter
\* The options a caller may pass: WithTracer(tA), WithTracer(tB), WithPropagators(pA).
Options ==
    { [field |-> "Tracer", val |-> "tA"], [field |-> "Tracer", val |-> "tB"],
      [field |-> "Propagators", val |-> "pA"] }
OptionLists ==
    {<<>>} \cup {<<o>> : o \in Options} \cup {<<o1, o2>> : o1 \in Options, o2 \in Options}

\* lines 38-40: for _, opt := range opts { opt(&cfg) }
RECURSIVE ApplyOptions(_, _)
ApplyOptions(opts, c) ==
    IF opts = <<>> THEN c
    ELSE ApplyOptions(Tail(opts),
                      IF Head(opts).field = "Tracer"
                      THEN [c EXCEPT !.Tracer = Head(opts).val]
                      ELSE [c EXCEPT !.Propagators = Head(opts).val])

\* lines 37-46: the Config after the options and the fall back to the globals.
\* The tracer of the global provider is named after the provider.
ResolveConfig(opts) ==
    LET c == ApplyOptions(opts, NoCfg)
    IN  [Tracer |-> IF c.Tracer = "nil" THEN globals.TraceProvider ELSE c.Tracer,
         Propagators |-> IF c.Propagators = "nil" THEN globals.Propagators
                         ELSE c.Propagators]

\* lines 36-47: OTelFilter(service, opts...) returns the filter function
OTelFilter ==
    /\ cfg = NoCfg
    /\ \E opts \in OptionLists : cfg' = ResolveConfig(opts)
    /\ UNCHANGED <<fpc, span, statusCode, reqCtx, chain, floc, fout, globals, used>>
    /\ UNCHANGED transportVars

\* the program sets another global trace provider or other global propagators
SetGlobals ==
    /\ globals.sets < MaxGlobalSets
    /\ \/ globals' = [globals EXCEPT !.TraceProvider = IF @ = "tp0" THEN "tp1" ELSE "tp0",
                                     !.sets = @ + 1]
       \/ globals' = [globals EXCEPT !.Propagators = IF @ = "p0" THEN "p1" ELSE "p0",
                                     !.sets = @ + 1]
    /\ UNCHANGED <<fpc, span, statusCode, reqCtx, chain, floc, fout, cfg, used>>
    /\ UNCHANGED transportVars

\* ------------------------------------------------- the function OTelFilter returns
\* restful.Response.StatusCode(): the status written, 200 while none was written
StatusCode(r) == IF statusCode[r] = 0 THEN 200 ELSE statusCode[r]

\* standard.SpanStatusFromHTTPStatusCode(code): the span status code and message
SpanStatusFromHTTPStatusCode(code) ==
    [code |-> CASE code \div 100 \in {1, 2, 3} -> "OK"
                [] code = 404 -> "NotFound"
                [] code \div 100 = 4 -> "InvalidArgument"
                [] code \div 100 = 5 -> "Internal"
                [] OTHER -> "Unknown",
     msg |-> code]

\* lines 48-58: the context extracted from the headers with cfg.Propagators, the
\* route, the start options
Filter_Extract(r) ==
    /\ cfg # NoCfg
    /\ fpc[r] = "idle"
    /\ used' = [used EXCEPT ![r].Propagators = cfg.Propagators]
    /\ fpc' = [fpc EXCEPT ![r] = "L59"]
    /\ UNCHANGED <<span, statusCode, reqCtx, chain, floc>>
    /\ UNCHANGED <<fout, globals, cfg>>
    /\ UNCHANGED transportVars

\* Mutation: the tracer is taken from the global provider on every request
Filter_Start_Global(r) ==
    /\ fpc[r] = "L59"
    /\ used' = [used EXCEPT ![r].Tracer = globals.TraceProvider]
    /\ span' = [span EXCEPT ![r] = Append(@, [ev |-> "Start"])]
    /\ fpc' = [fpc EXCEPT ![r] = "L63"]
    /\ UNCHANGED <<statusCode, reqCtx, chain, floc>>
    /\ UNCHANGED <<fout, globals, cfg>>
    /\ UNCHANGED transportVars

\* lines 59-60: ctx, span := cfg.Tracer.Start(...); defer span.End()
Filter_Start(r) ==
    /\ fpc[r] = "L59"
    /\ used' = [used EXCEPT ![r].Tracer = cfg.Tracer]
    /\ span' = [span EXCEPT ![r] = Append(@, [ev |-> "Start"])]
    /\ fpc' = [fpc EXCEPT ![r] = "L63"]
    /\ UNCHANGED <<statusCode, reqCtx, chain, floc>>
    /\ UNCHANGED <<fout, globals, cfg>>
    /\ UNCHANGED transportVars

\* line 63: req.Request = req.Request.WithContext(ctx)
Filter_WithContext(r) ==
    /\ fpc[r] = "L63"
    /\ reqCtx' = [reqCtx EXCEPT ![r] = "span"]
    /\ fpc' = [fpc EXCEPT ![r] = "L65"]
    /\ UNCHANGED <<span, statusCode, chain, floc>>
    /\ UNCHANGED <<fout, globals, cfg, used>>
    /\ UNCHANGED transportVars

\* Mutation: the chain is skipped: the filter goes on as if it had returned
Filter_ProcessFilter_Skip(r) ==
    /\ fpc[r] = "L65"
    /\ fpc' = [fpc EXCEPT ![r] = "L67"]
    /\ UNCHANGED <<span, statusCode, reqCtx, chain, floc>>
    /\ UNCHANGED <<fout, globals, cfg, used>>
    /\ UNCHANGED transportVars

\* line 65: chain.ProcessFilter(req, resp) is called
Filter_ProcessFilter(r) ==
    /\ fpc[r] = "L65"
    /\ chain' = [chain EXCEPT ![r].calls = @ + 1]
    /\ fpc' = [fpc EXCEPT ![r] = "chain"]
    /\ UNCHANGED <<span, statusCode, reqCtx, floc>>
    /\ UNCHANGED <<fout, globals, cfg, used>>
    /\ UNCHANGED transportVars

\* the downstream chain writes a status code on the response
Chain_WriteHeader(r) ==
    /\ fpc[r] = "chain"
    /\ chain[r].writes < MaxWrites
    /\ \E code \in ChainCodes : statusCode' = [statusCode EXCEPT ![r] = code]
    /\ chain' = [chain EXCEPT ![r].writes = @ + 1]
    /\ UNCHANGED <<fpc, span, reqCtx, floc>>
    /\ UNCHANGED <<fout, globals, cfg, used>>
    /\ UNCHANGED transportVars

\* the downstream chain returns
Chain_Return(r) ==
    /\ fpc[r] = "chain"
    /\ fpc' = [fpc EXCEPT ![r] = "L67"]
    /\ UNCHANGED <<span, statusCode, reqCtx, chain, floc>>
    /\ UNCHANGED <<fout, globals, cfg, used>>
    /\ UNCHANGED transportVars

\* Mutation: span.End() is not deferred: a panic of the chain leaves the function
Chain_Panic_NoDefer(r) ==
    /\ fpc[r] = "chain"
    /\ chain' = [chain EXCEPT ![r].panicked = TRUE]
    /\ fpc' = [fpc EXCEPT ![r] = "done"]
    /\ UNCHANGED <<span, statusCode, reqCtx, floc>>
    /\ UNCHANGED <<fout, globals, cfg, used>>
    /\ UNCHANGED transportVars

\* the downstream chain panics: lines 67-70 are skipped, the deferred call runs
Chain_Panic(r) ==
    /\ fpc[r] = "chain"
    /\ chain' = [chain EXCEPT ![r].panicked = TRUE]
    /\ fpc' = [fpc EXCEPT ![r] = "defer"]
    /\ UNCHANGED <<span, statusCode, reqCtx, floc>>
    /\ UNCHANGED <<fout, globals, cfg, used>>
    /\ UNCHANGED transportVars

\* Mutation: the attributes are those of the status before the chain ran
Filter_Attrs_Stale(r) ==
    /\ fpc[r] = "L67"
    /\ floc' = [floc EXCEPT ![r].attrs = HTTPAttributesFromHTTPStatusCode(200)]
    /\ fpc' = [fpc EXCEPT ![r] = "L68"]
    /\ UNCHANGED <<span, statusCode, reqCtx, chain>>
    /\ UNCHANGED <<fout, globals, cfg, used>>
    /\ UNCHANGED transportVars

\* line 67: attrs := standard.HTTPAttributesFromHTTPStatusCode(resp.StatusCode())
Filter_Attrs(r) ==
    /\ fpc[r] = "L67"
    /\ floc' = [floc EXCEPT ![r].attrs = HTTPAttributesFromHTTPStatusCode(StatusCode(r))]
    /\ fpc' = [fpc EXCEPT ![r] = "L68"]
    /\ UNCHANGED <<span, statusCode, reqCtx, chain>>
    /\ UNCHANGED <<fout, globals, cfg, used>>
    /\ UNCHANGED transportVars

\* line 68: spanStatus, spanMessage := standard.SpanStatusFromHTTPStatusCode(resp.StatusCode())
Filter_SpanStatus(r) ==
    /\ fpc[r] = "L68"
    /\ floc' = [floc EXCEPT ![r].spanStatus = SpanStatusFromHTTPStatusCode(StatusCode(r))]
    /\ fpc' = [fpc EXCEPT ![r] = "L69"]
    /\ UNCHANGED <<span, statusCode, reqCtx, chain>>
    /\ UNCHANGED <<fout, globals, cfg, used>>
    /\ UNCHANGED transportVars

\* line 69: span.SetAttributes(attrs...)
Filter_SetAttributes(r) ==
    /\ fpc[r] = "L69"
    /\ span' = [span EXCEPT ![r] = Append(@, [ev |-> "SetAttributes", attrs |-> floc[r].attrs])]
    /\ fpc' = [fpc EXCEPT ![r] = "L70"]
    /\ UNCHANGED <<statusCode, reqCtx, chain, floc>>
    /\ UNCHANGED <<fout, globals, cfg, used>>
    /\ UNCHANGED transportVars

\* line 70: span.SetStatus(spanStatus, spanMessage); the function returns
Filter_SetStatus(r) ==
    /\ fpc[r] = "L70"
    /\ span' = [span EXCEPT ![r] = Append(@, [ev |-> "SetStatus", status |-> floc[r].spanStatus])]
    /\ fpc' = [fpc EXCEPT ![r] = "defer"]
    /\ UNCHANGED <<statusCode, reqCtx, chain, floc>>
    /\ UNCHANGED <<fout, globals, cfg, used>>
    /\ UNCHANGED transportVars

\* line 60: the deferred span.End() runs, on return and on panic alike; the
\* function returns, or the panic of the chain goes on to its caller
Filter_End(r) ==
    /\ fpc[r] = "defer"
    /\ span' = [span EXCEPT ![r] = Append(@, [ev |-> "End"])]
    /\ fpc' = [fpc EXCEPT ![r] = "done"]
    /\ fout' = [fout EXCEPT ![r] = IF chain[r].panicked THEN "panicked" ELSE "returned"]
    /\ UNCHANGED <<statusCode, reqCtx, chain, floc>>
    /\ UNCHANGED <<globals, cfg, used>>
    /\ UNCHANGED transportVars

Init == InitTransport /\ InitFilter

Next ==
    \/ Tick
    \/ \E c \in Calls : RoundTrip_Begin(c)
    \/ \E c \in Calls : RoundTrip_Base(c)
    \/ \E c \in Calls : RoundTrip_ErrLabels(c)
    \/ \E c \in Calls : RoundTrip_OkLabels(c)
    \/ \E c \in Calls : RoundTrip_End(c)
    \/ \E c \in Calls : RoundTrip_Wrap(c)
    \/ \E c \in Calls : RoundTrip_Return(c)
    \/ \E c \in Calls, t \in Threads : end_Load(c, t)
    \/ \E c \in Calls, t \in Threads : end_Lock(c, t)
    \/ \E c \in Calls, t \in Threads : end_Record(c, t)
    \/ \E c \in Calls, t \in Threads : end_Store(c, t)
    \/ \E c \in Calls, t \in Threads : end_Unlock(c, t)
    \/ \E c \in Calls, g \in Goroutines : Read_Delegate(c, g)
    \/ \E c \in Calls, g \in Goroutines : Read_Switch(c, g)
    \/ \E c \in Calls, g \in Goroutines : Read_Return(c, g)
    \/ \E c \in Calls, g \in Goroutines : Close_End(c, g)
    \/ \E c \in Calls, g \in Goroutines : Close_Delegate(c, g)

Spec == Init /\ [][Next]_vars

\* Two concurrent calls, the body of each used by one goroutine; the Read, Close
\* and Write calls of both together are bounded by MaxCallOps.
OpsOfAll ==
    LET n(c) == OpsMade(c) + body[c].writes
    IN  n("c1") + n("c2")

NextCalls ==
    \/ \E c \in AllCalls : RoundTrip_Begin(c)
    \/ \E c \in AllCalls : RoundTrip_Base(c)
    \/ \E c \in AllCalls : RoundTrip_ErrLabels(c)
    \/ \E c \in AllCalls : RoundTrip_OkLabels(c)
    \/ \E c \in AllCalls : RoundTrip_End(c)
    \/ \E c \in AllCalls : RoundTrip_Wrap(c)
    \/ \E c \in AllCalls : RoundTrip_Return(c)
    \/ \E c \in AllCalls, t \in {"rt", "g1"} : end_Load(c, t)
    \/ \E c \in AllCalls, t \in {"rt", "g1"} : end_Lock(c, t)
    \/ \E c \in AllCalls, t \in {"rt", "g1"} : end_Record(c, t)
    \/ \E c \in AllCalls, t \in {"rt", "g1"} : end_Store(c, t)
    \/ \E c \in AllCalls, t \in {"rt", "g1"} : end_Unlock(c, t)
    \/ \E c \in AllCalls : OpsOfAll < MaxCallOps /\ Read_Delegate(c, "g1")
    \/ \E c \in AllCalls : Read_Switch(c, "g1")
    \/ \E c \in AllCalls : Read_Return(c, "g1")
    \/ \E c \in AllCalls : OpsOfAll < MaxCallOps /\ Close_End(c, "g1")
    \/ \E c \in AllCalls : Close_Delegate(c, "g1")
    \/ \E c \in AllCalls : OpsOfAll < MaxCallOps /\ Write(c, "g1")

SpecCalls == Init /\ [][NextCalls]_vars

NextFilter ==
    \/ OTelFilter
    \/ SetGlobals
    \/ \E r \in Requests : Filter_Extract(r)
    \/ \E r \in Requests : Filter_Start(r)
    \/ \E r \in Requests : Filter_WithContext(r)
    \/ \E r \in Requests : Filter_ProcessFilter(r)
    \/ \E r \in Requests : Chain_WriteHeader(r)
    \/ \E r \in Requests : Chain_Return(r)
    \/ \E r \in Requests : Chain_Panic(r)
    \/ \E r \in Requests : Filter_Attrs(r)
    \/ \E r \in Requests : Filter_SpanStatus(r)
    \/ \E r \in Requests : Filter_SetAttributes(r)
    \/ \E r \in Requests : Filter_SetStatus(r)
    \/ \E r \in Requests : Filter_End(r)

SpecFilter == Init /\ [][NextFilter]_vars

\* ------------------------------------------------------------------ properties
\* RoundTrip has returned for call c.
Returned(c) == rtRet[c] # NoRet
\* No Read or Close of call c is in progress.
Quiescent(c) == \A g \in Goroutines : thr[c][g].pc = "idle"
\* Goroutines of call c inside the wrapper's Read, and inside its Close.
InRead(c) == {g \in Goroutines : thr[c][g].op = "Read" /\ thr[c][g].pc # "idle"}
InClose(c) == {g \in Goroutines : thr[c][g].op = "Close" /\ thr[c][g].pc # "idle"}
\* A finalization trigger has completed for call c: RoundTrip returned on the
\* error or nil-body path, a Read returned io.EOF, or a Close returned.
TriggerCompleted(c) ==
    \/ Returned(c) /\ ~Published(c)
    \/ wrap[c].eofs > 0
    \/ body[c].closes > 0
ErrLabels(c) ==
    HTTPClientAttributesFromHTTPRequest(c)
      \o HTTPAttributesFromHTTPStatusCode(StatusInternalServerError)
StatusLabels(c) ==
    HTTPClientAttributesFromHTTPRequest(c)
      \o HTTPAttributesFromHTTPStatusCode(baseRet[c].StatusCode)

\* C1 (as stated): once RoundTrip has returned and whatever sequence of Read and
\* Close calls was made on the body has ended, the recorder has received exactly
\* one sample for the call.
CexC1 ==
    \A c \in Calls : Returned(c) /\ Quiescent(c) => Len(SamplesOf(c)) = 1

\* C1 (amended): the recorder never receives more than one sample for a call, and
\* it has received exactly one as soon as a finalization trigger has completed:
\* RoundTrip returned with an error or a nil body, a Read returned end-of-stream,
\* or a Close returned (also when the body is read to end-of-stream and then closed).
TheoremC1 ==
    \A c \in Calls :
        /\ Len(SamplesOf(c)) <= 1
        /\ TriggerCompleted(c) => Len(SamplesOf(c)) = 1

\* A call whose body was read to end-of-stream and then closed has one sample.
WitnessC1 ==
    \E c \in Calls :
        /\ Published(c) /\ Quiescent(c)
        /\ wrap[c].eofs >= 1 /\ body[c].closes >= 1
        /\ Len(SamplesOf(c)) = 1

\* C2: when end() is entered concurrently by several goroutines (an end-of-stream
\* Read racing with Close calls), Record is invoked at most once for the call:
\* the samples recorded plus the threads inside the once-guarded function never
\* exceed one.
TheoremC2 ==
    \A c \in Calls :
        Len(SamplesOf(c))
          + Cardinality({t \in Threads : thr[c][t].pc = "once_f"}) <= 1

\* An end-of-stream Read and a Close both passed the load of done while it was
\* 0; one of them has recorded and the other waits for the mutex.
WitnessC2 ==
    \E c \in Calls, g, h \in Goroutines :
        /\ thr[c][g].op = "Read" /\ thr[c][g].pc = "once_lock"
        /\ thr[c][h].op = "Close" /\ thr[c][h].pc = "once_store"
        /\ Len(SamplesOf(c)) = 1

\* C3: when the wrapped transport returns an error, RoundTrip returns the wrapped
\* transport's response and error unchanged, and at its return exactly one sample
\* is recorded, labelled with the request attributes and status code 500.
TheoremC3 ==
    \A c \in Calls :
        (thr[c]["rt"].pc \in {"L79", "done"} /\ baseRet[c].err # "nil") =>
            /\ Returned(c) =>
                 /\ rtRet[c].resp = baseRet[c].resp
                 /\ rtRet[c].err = baseRet[c].err
            /\ resp[c] = [StatusCode |-> baseRet[c].StatusCode, Body |-> baseRet[c].Body]
            /\ Len(SamplesOf(c)) = 1
            /\ SamplesOf(c)[1].labels = ErrLabels(c)

\* RoundTrip has returned an error that came with a response.
WitnessC3 ==
    \E c \in Calls :
        /\ Returned(c)
        /\ rtRet[c].err = "ErrNet" /\ rtRet[c].resp = "resp"
        /\ Len(SamplesOf(c)) = 1

\* C4: when the wrapped transport succeeds with a nil body, exactly one sample,
\* labelled with the response's status code, is recorded before RoundTrip
\* returns, and the response body stays nil.
TheoremC4 ==
    \A c \in Calls :
        (/\ thr[c]["rt"].pc \in {"L79", "done"}
         /\ baseRet[c].err = "nil"
         /\ baseRet[c].Body = "nil") =>
            /\ Len(SamplesOf(c)) = 1
            /\ SamplesOf(c)[1].labels = StatusLabels(c)
            /\ resp[c].Body = "nil"

\* RoundTrip is about to return a 404 response without a body.
WitnessC4 ==
    \E c \in Calls :
        /\ thr[c]["rt"].pc = "L79"
        /\ baseRet[c].err = "nil" /\ baseRet[c].Body = "nil"
        /\ baseRet[c].StatusCode = 404
        /\ Len(SamplesOf(c)) = 1

\* C5: for a successful call with a body, the sample is recorded at the first
\* finalization trigger: there is none before an end-of-stream Read or a Close
\* has begun; there is one as soon as a thread has come out of end(); and when
\* the body was read to end-of-stream and no Close was made yet, the sample is
\* already there, so that the later Close records nothing.
TheoremC5 ==
    \A c \in Calls :
        Published(c) =>
            /\ (body[c].eofs = 0 /\ wrap[c].closes = 0) => Len(SamplesOf(c)) = 0
            /\ \A g \in Goroutines :
                 thr[c][g].pc \in {"L122", "L127"} /\ thr[c][g].err # "ErrUnexpectedEOF"
                    => Len(SamplesOf(c)) = 1
            /\ (wrap[c].eofs > 0 /\ wrap[c].closes = 0) => Len(SamplesOf(c)) = 1
            /\ (wrap[c].eofs > 0 /\ body[c].closes > 0) => Len(SamplesOf(c)) = 1

\* The body was read in three Reads, the third one returning end-of-stream, and
\* then closed.
WitnessC5 ==
    \E c \in Calls, g \in Goroutines :
        /\ Published(c) /\ Quiescent(c)
        /\ body[c].reads = 3 /\ wrap[c].eofs = 1 /\ body[c].eofs = 1
        /\ wrap[c].closes = 1 /\ body[c].closes = 1
        /\ ret[c][g].op = "Close"
        /\ Len(SamplesOf(c)) = 1

\* C6: a Read that returns an error other than end-of-stream does not finalize:
\* while no Read has returned end-of-stream from the body and no Close was made,
\* no sample is recorded and the guard is not set, however many Reads were made.
TheoremC6 ==
    \A c \in Calls :
        (Published(c) /\ body[c].eofs = 0 /\ wrap[c].closes = 0) =>
            /\ Len(SamplesOf(c)) = 0
            /\ tracker[c].done = 0
            /\ \A g \in Goroutines : thr[c][g].pc \notin
                 {"once_load", "once_lock", "once_f", "once_store", "once_unlock"}

\* Two Reads failed with an error other than end-of-stream, and more Reads were made.
WitnessC6 ==
    \E c \in Calls :
        /\ Published(c) /\ Quiescent(c)
        /\ \A g \in Goroutines : ret[c][g].err = "ErrUnexpectedEOF"
        /\ wrap[c].reads = MaxOps
        /\ body[c].eofs = 0 /\ wrap[c].closes = 0
        /\ Len(SamplesOf(c)) = 0

\* C7: every Read on the wrapper calls the original body's Read exactly once and
\* returns its byte count and error unchanged; when the error is end-of-stream
\* the measurement is finalized before Read returns.
TheoremC7 ==
    \A c \in Calls :
        /\ body[c].reads = wrap[c].reads + Cardinality(InRead(c))
        /\ \A g \in Goroutines :
             ret[c][g].op = "Read" =>
                /\ ret[c][g].n = thr[c][g].n
                /\ ret[c][g].err = thr[c][g].err
                /\ ret[c][g].err = "EOF" =>
                     tracker[c].done = 1 /\ Len(SamplesOf(c)) = 1

\* One goroutine's Read returned a byte with end-of-stream, another's returned
\* an error other than end-of-stream.
WitnessC7 ==
    \E c \in Calls, g, h \in Goroutines :
        /\ ret[c][g] = [op |-> "Read", n |-> 1, err |-> "EOF"]
        /\ ret[c][h] = [op |-> "Read", n |-> 0, err |-> "ErrUnexpectedEOF"]

\* C8: every Close on the wrapper finalizes first and then calls the original
\* body's Close exactly once, returning its result: the original body's Close
\* is called only with the sample recorded, k Close calls make k Close calls on
\* the original body, and at most one sample is recorded.
TheoremC8 ==
    \A c \in Calls :
        /\ body[c].closes + Cardinality(InClose(c)) = wrap[c].closes
        /\ \A g \in Goroutines :
             /\ thr[c][g].pc = "L127" =>
                  tracker[c].done = 1 /\ Len(SamplesOf(c)) = 1
             /\ ret[c][g].op = "Close" => ret[c][g].err = thr[c][g].err
        /\ body[c].closes > 0 => Len(SamplesOf(c)) = 1

\* Close was called twice after an end-of-stream Read; the original body's Close
\* was called twice and failed the second time.
WitnessC8 ==
    \E c \in Calls, g \in Goroutines :
        /\ Quiescent(c)
        /\ wrap[c].eofs = 1
        /\ wrap[c].closes = 2 /\ body[c].closes = 2
        /\ ret[c][g] = [op |-> "Close", n |-> 0, err |-> "ErrClosed"]
        /\ Len(SamplesOf(c)) = 1
\* The calls of kind ev the span of request r received.
Events(r, ev) == SelectSeq(span[r], LAMBDA e : e.ev = ev)

\* C9: for every request the filter processes, the span is started exactly once
\* and ended exactly once, whether the chain returns, panics, or writes the
\* status code several times.
TheoremC9 ==
    \A r \in Requests :
        /\ Len(Events(r, "Start")) = (IF fpc[r] \in {"idle", "L59"} THEN 0 ELSE 1)
        /\ Len(Events(r, "End")) = (IF fpc[r] = "done" THEN 1 ELSE 0)
        /\ chain[r].panicked => fpc[r] \in {"defer", "done"}

\* The chain wrote the status twice and then panicked; the filter is done.
WitnessC9 ==
    \E r \in Requests :
        /\ fpc[r] = "done"
        /\ chain[r].panicked /\ chain[r].writes = MaxWrites
        /\ span[r] = << [ev |-> "Start"], [ev |-> "End"] >>

\* C10: when the chain returns, the filter attaches the HTTP status attributes
\* and the status classification of the response status code as it is then (the
\* last value the chain wrote), and then ends the span; SetAttributes and
\* SetStatus are not called before the chain was invoked, nor after End.
TheoremC10 ==
    \A r \in Requests :
        /\ (fpc[r] = "done" /\ ~chain[r].panicked) =>
              span[r] = << [ev |-> "Start"],
                           [ev |-> "SetAttributes",
                            attrs |-> HTTPAttributesFromHTTPStatusCode(StatusCode(r))],
                           [ev |-> "SetStatus",
                            status |-> SpanStatusFromHTTPStatusCode(StatusCode(r))],
                           [ev |-> "End"] >>
        /\ (chain[r].calls = 0 \/ fpc[r] = "chain") =>
              Len(Events(r, "SetAttributes")) + Len(Events(r, "SetStatus")) = 0
        /\ \A i \in 1..Len(span[r]) : span[r][i].ev = "End" => i = Len(span[r])

\* The chain wrote 200 and then 500 and returned; the span carries 500 / Internal.
WitnessC10 ==
    \E r \in Requests :
        /\ fpc[r] = "done" /\ ~chain[r].panicked
        /\ chain[r].writes = 2 /\ statusCode[r] = 500
        /\ span[r][3] = [ev |-> "SetStatus", status |-> [code |-> "Internal", msg |-> 500]]
\* C11 (as stated): however control leaves chain.ProcessFilter (normal return
\* or panic), the ended span carries the status attributes and the status
\* classification of the response status code at that moment.
CexC11 ==
    \A r \in Requests :
        fpc[r] = "done" =>
            /\ Events(r, "SetAttributes") =
                 << [ev |-> "SetAttributes",
                     attrs |-> HTTPAttributesFromHTTPStatusCode(StatusCode(r))] >>
            /\ Events(r, "SetStatus") =
                 << [ev |-> "SetStatus",
                     status |-> SpanStatusFromHTTPStatusCode(StatusCode(r))] >>
\* C12: the filter invokes the downstream chain exactly once per request, after
\* the span was started and the request's context replaced by the span's; it
\* does not skip or repeat it and does not write the response, so the status
\* code changes only while the chain runs, and the filter returns if the chain
\* returned and panics if the chain panicked.
InvC12 ==
    \A r \in Requests :
        /\ chain[r].calls = (IF fpc[r] \in {"idle", "L59", "L63", "L65"} THEN 0 ELSE 1)
        /\ chain[r].calls = 1 => reqCtx[r] = "span" /\ Len(Events(r, "Start")) = 1
        /\ chain[r].writes = 0 => statusCode[r] = 0
        /\ fout[r] = (IF fpc[r] # "done" THEN "none"
                      ELSE IF chain[r].panicked THEN "panicked" ELSE "returned")
TheoremC12 ==
    /\ []InvC12
    /\ [][\A r \in Requests :
            statusCode'[r] # statusCode[r] => fpc[r] = "chain" /\ fpc'[r] = "chain"]_vars

\* One request's chain wrote 404 and returned, the other's panicked; both
\* filters are done, the first returned and the second panicked.
WitnessC12 ==
    \E r, q \in Requests :
        /\ fout[r] = "returned" /\ statusCode[r] = 404 /\ chain[r].calls = 1
        /\ fout[q] = "panicked" /\ chain[q].calls = 1
\* The value of the last option of opts that sets field, "nil" when none does.
LastOf(opts, field) ==
    LET S == {i \in 1..Len(opts) : opts[i].field = field}
    IN  IF S = {} THEN "nil"
        ELSE opts[CHOOSE i \in S : \A j \in S : j <= i].val

\* C17: the tracer and the propagators of the filter are resolved once, when
\* OTelFilter is called: the options are applied in order (the last one that
\* sets a field wins), an unset field takes the global of that moment, the
\* Config never changes afterwards, and every request uses the propagators and
\* the tracer of that Config, whatever the globals have become.
InvC17 ==
    /\ \A opts \in OptionLists :
          ApplyOptions(opts, NoCfg) =
             [Tracer |-> LastOf(opts, "Tracer"), Propagators |-> LastOf(opts, "Propagators")]
    /\ cfg # NoCfg => cfg.Tracer # "nil" /\ cfg.Propagators # "nil"
    /\ \A r \in Requests :
          /\ used[r].Propagators = (IF fpc[r] = "idle" THEN "nil" ELSE cfg.Propagators)
          /\ used[r].Tracer = (IF fpc[r] \in {"idle", "L59"} THEN "nil" ELSE cfg.Tracer)
TheoremC17 ==
    /\ []InvC17
    /\ [][/\ cfg # NoCfg => cfg' = cfg
          /\ cfg' # cfg =>
               /\ cfg'.Tracer \in {"tA", "tB", globals.TraceProvider}
               /\ cfg'.Propagators \in {"pA", globals.Propagators}]_vars

\* The filter was built without a tracer option while the global provider was
\* tp0; the global provider is tp1 now, and a request was traced with tp0.
WitnessC17 ==
    \E r \in Requests :
        /\ cfg.Tracer = "tp0" /\ globals.TraceProvider = "tp1"
        /\ fpc[r] = "done" /\ used[r].Tracer = "tp0"
\* C15: when the wrapped transport succeeds with a body, no sample is recorded
\* when RoundTrip returns; the response body handed to the caller is the wrapper
\* around that body; a sample appears only once a Read got end-of-stream from
\* the body or a Close was called on the wrapper.
TheoremC15 ==
    \A c \in Calls :
        (/\ thr[c]["rt"].pc \in {"L79", "done"}
         /\ baseRet[c].err = "nil"
         /\ baseRet[c].Body # "nil") =>
            /\ resp[c].Body \in {"tracker", "trackerW"}
            /\ tracker[c].body = baseRet[c].Body
            /\ thr[c]["rt"].pc = "L79" => Len(SamplesOf(c)) = 0 /\ tracker[c].done = 0
            /\ Len(SamplesOf(c)) > 0 => body[c].eofs > 0 \/ wrap[c].closes > 0

\* RoundTrip has returned a wrapped body, time has passed, a Read returned
\* bytes, and nothing is recorded yet.
WitnessC15 ==
    \E c \in Calls :
        /\ Returned(c) /\ Published(c) /\ Quiescent(c)
        /\ wrap[c].reads = 1 /\ wrap[c].closes = 0 /\ body[c].eofs = 0
        /\ clock > tracker[c].start
        /\ Len(SamplesOf(c)) = 0

\* C16: the recorded duration is the clock at the first finalization trigger
\* minus the start time, and the start time is taken on entry of RoundTrip,
\* before the wrapped transport is invoked, and not touched afterwards; so the
\* value is not negative and covers the wrapped round trip and, for a response
\* with a body, the time until end-of-stream or Close.
InvC16 ==
    \A i \in 1..Len(samples) :
        /\ samples[i].value >= 0
        /\ samples[i].value <= clock - tracker[samples[i].ctx].start
TheoremC16 ==
    /\ []InvC16
    /\ [][\A c \in Calls :
            /\ tracker'[c].start # tracker[c].start => thr[c]["rt"].pc = "idle"
            /\ Len(SamplesOf(c)') > Len(SamplesOf(c)) =>
                 /\ Len(SamplesOf(c)) = 0
                 /\ SamplesOf(c)'[1].value = clock - tracker[c].start]_vars

\* A call that started at time 0 and whose body was closed at time 1 has a
\* sample of duration 1.
WitnessC16 ==
    \E c \in Calls :
        /\ Published(c) /\ body[c].closes = 1 /\ body[c].eofs = 0
        /\ tracker[c].start = 0
        /\ Len(SamplesOf(c)) = 1 /\ SamplesOf(c)[1].value = 1

\* A thread of call c has come out of tracker.end().
PastEnd(c, t) ==
    \/ /\ t = "rt" /\ thr[c][t].pc = "L79"
       /\ (baseRet[c].err # "nil" \/ baseRet[c].Body = "nil")
    \/ thr[c][t].op = "Close" /\ thr[c][t].pc = "L127"
    \/ thr[c][t].op = "Read" /\ thr[c][t].pc = "L122" /\ thr[c][t].err = "EOF"

\* C18: no caller of end() comes out of it before the sample is recorded (a
\* caller that loses the race waits for the winner); so the original body's
\* Close is not called, and no end-of-stream Read returns, before the sample
\* is recorded.
TheoremC18 ==
    \A c \in Calls :
        /\ \A t \in Threads :
             (PastEnd(c, t) \/ thr[c][t].pc = "once_unlock") => Len(SamplesOf(c)) = 1
        /\ (body[c].closes > 0 \/ wrap[c].eofs > 0) => Len(SamplesOf(c)) = 1
        /\ \A t \in Threads :
             thr[c][t].pc = "once_f" =>
                \A u \in Threads \ {t} : ~PastEnd(c, u) /\ thr[c][u].pc # "once_unlock"

\* A Close runs the guarded function and has not recorded yet; an end-of-stream
\* Read that also found done unset waits for the mutex.
WitnessC18 ==
    \E c \in Calls, g, h \in Goroutines :
        /\ thr[c][g].op = "Close" /\ thr[c][g].pc = "once_f"
        /\ thr[c][h].op = "Read" /\ thr[c][h].pc = "once_lock"
        /\ Len(SamplesOf(c)) = 0

\* The labels RoundTrip gives the tracker of call c.
ExpectedLabels(c) == IF baseRet[c].err # "nil" THEN ErrLabels(c) ELSE StatusLabels(c)
OncePcs == {"once_load", "once_lock", "once_f", "once_store", "once_unlock"}

\* C19: the tracker's labels are assigned before any finalization of that
\* tracker can run and before the wrapper is published, and they stay as
\* assigned: whenever a thread is inside end(), the wrapper is published, or a
\* sample exists, the labels are the request attributes plus status 500 on the
\* error path and the response's status code otherwise, and so are the labels
\* of every sample.
TheoremC19 ==
    \A c \in Calls :
        /\ (\/ \E t \in Threads : thr[c][t].pc \in OncePcs
            \/ thr[c]["rt"].pc \in {"L69", "L72", "L79", "done"}
            \/ Published(c))
              => tracker[c].labels = ExpectedLabels(c)
        /\ \A i \in 1..Len(SamplesOf(c)) :
             SamplesOf(c)[i].labels = ExpectedLabels(c)

\* A 404 response with a body was finalized by a Close; its sample carries 404.
WitnessC19 ==
    \E c \in Calls :
        /\ Published(c) /\ baseRet[c].StatusCode = 404
        /\ body[c].eofs = 0 /\ body[c].closes = 1
        /\ Len(SamplesOf(c)) = 1
        /\ SamplesOf(c)[1].labels =
             << [key |-> "http.request", req |-> c], [key |-> "http.status_code", code |-> 404] >>
\* C13: the body wrappedBodyIO returns is a Writer if and only if the original
\* body is one; a write on it goes to the original body and not through the
\* tracker (it finalizes nothing), while Read and Close on it go through the
\* tracker (an end-of-stream Read or a Close finalizes).
TheoremC13 ==
    \A c \in AllCalls :
        /\ (/\ thr[c]["rt"].pc \in {"L79", "done"}
            /\ baseRet[c].err = "nil"
            /\ baseRet[c].Body # "nil") =>
               /\ resp[c].Body \in {"tracker", "trackerW"}
               /\ IsWriter(resp[c].Body) <=> IsWriter(baseRet[c].Body)
               /\ tracker[c].body = baseRet[c].Body
        /\ body[c].writes > 0 => baseRet[c].Body = "bodyW"
        /\ (body[c].writes > 0 /\ body[c].eofs = 0 /\ wrap[c].closes = 0) =>
               Len(SamplesOf(c)) = 0 /\ tracker[c].done = 0
        /\ (resp[c].Body = "trackerW" /\ (body[c].closes > 0 \/ wrap[c].eofs > 0)) =>
               Len(SamplesOf(c)) = 1

\* One call returned a body that is a Writer: it was written to and then
\* closed; the other call returned a body that is no Writer, and its wrapper
\* is none.
WitnessC13 ==
    \E c, d \in AllCalls :
        /\ baseRet[c].Body = "bodyW" /\ resp[c].Body = "trackerW"
        /\ body[c].writes = 1 /\ body[c].closes = 1 /\ Len(SamplesOf(c)) = 1
        /\ baseRet[d].Body = "body" /\ resp[d].Body = "tracker" /\ Published(d)

\* The guard of call c has fired: its function has run.
Fired(c) == tracker[c].done = 1 \/ \E t \in Threads : thr[c][t].pc = "once_store"

\* C14: concurrent calls are independent: under every interleaving of two calls
\* and of the operations on their bodies, the samples of a call are decided by
\* that call's own tracker and triggers alone, as when it runs alone: one
\* sample exactly when its own guard has fired, one as soon as one of its own
\* triggers has completed, none while none of its own triggers has begun, and
\* the sample carries its own labels.
TheoremC14 ==
    \A c \in AllCalls :
        /\ Len(SamplesOf(c)) = (IF Fired(c) THEN 1 ELSE 0)
        /\ TriggerCompleted(c) => Len(SamplesOf(c)) = 1
        /\ (Published(c) /\ body[c].eofs = 0 /\ wrap[c].closes = 0) => Len(SamplesOf(c)) = 0
        /\ \A i \in 1..Len(SamplesOf(c)) :
             SamplesOf(c)[i].labels = tracker[c].labels
    /\ Len(samples) = Len(SamplesOf("c1")) + Len(SamplesOf("c2"))

\* Both calls returned a body; the one that returned second was finalized first,
\* by a Close, and then the other by an end-of-stream Read.
WitnessC14 ==
    /\ Published("c1") /\ Published("c2")
    /\ Len(samples) = 2
    /\ samples[1].ctx = "c2" /\ samples[2].ctx = "c1"
    /\ body["c2"].closes = 1 /\ wrap["c1"].eofs = 1
    /\ baseRet["c1"].StatusCode # baseRet["c2"].StatusCode

====
